---- MODULE Spec2Model ----
(***************************************************************************)
(* Model of src/Value.js of react-forms: the immutable Value tree (a Root  *)
(* owning document, schema, params and the two error lists; Branch views   *)
(* addressed by key path), the change notification channel onChange and    *)
(* the process-wide update suppression flag.                               *)
(*                                                                         *)
(* Strings that the code joins, slices and indexes (error fields, key path *)
(* segments) are sequences of one-character strings, so that join('.'),    *)
(* slice(0, n) and field[n] are computed as the code computes them.        *)
(* Objects that the code compares by reference carry their identity: a     *)
(* Root is identified by its position in the heap `roots`, a ValueBranch   *)
(* by its `branch` number, an error record by its `ref`.                   *)
(***************************************************************************)
EXTENDS Integers, Sequences, FiniteSets, TLC

VARIABLES
  roots,                      \* heap of ValueRoot instances, in allocation order
  suppressUpdateContextual,   \* the module-level flag (line 14)
  scopes,                     \* number of suppressUpdate(tx) calls whose tx is running
  notified,                   \* calls of onChange so far, in order
  last                        \* the most recent call: receiver, arguments, returned Value

vars == <<roots, suppressUpdateContextual, scopes, notified, last>>

(* ------------------------------ bounds --------------------------------- *)

\* ValueRoot instances allocated in one run: the Root made by create and
\* those made by the calls that follow; the run goes on while there is room
MaxRoots == 2

\* depth of nested suppressUpdate calls
MaxDepth == 2

(* ------------------------- strings and key paths ----------------------- *)

SegA == <<"a">>
SegB == <<"b">>
SegAB == <<"a", "b">>

\* Array.prototype.join on an array of strings
RECURSIVE join(_, _)
join(list, sep) ==
  IF Len(list) = 0 THEN <<>>
  ELSE IF Len(list) = 1 THEN list[1]
  ELSE list[1] \o sep \o join(Tail(list), sep)

\* ['data'].concat(keyPath).join('.')
fieldOf(keyPath) == join(<< <<"d", "a", "t", "a">> >> \o keyPath, <<".">>)

\* String.prototype.slice(0, n) for n >= 0
slice0(str, n) == SubSeq(str, 1, IF n < Len(str) THEN n ELSE Len(str))

\* str[n] (0-based); undefined past the end is rendered as the empty string
charAt(str, n) == IF n + 1 <= Len(str) THEN <<str[n + 1]>> ELSE <<>>

\* Array.prototype.indexOf on a list of error records: strict (reference)
\* equality; 0-based, -1 when absent
RECURSIVE indexOfFrom(_, _, _)
indexOfFrom(list, error, i) ==
  IF i > Len(list) THEN -1
  ELSE IF list[i].ref = error.ref THEN i - 1
  ELSE indexOfFrom(list, error, i + 1)

\* mutant of indexOf: an absent record is reported at index 0
indexOf_absentZero(list, error) ==
  LET idx == indexOfFrom(list, error, 1) IN IF idx = -1 THEN 0 ELSE idx

indexOf(list, error) == indexOfFrom(list, error, 1)

\* list.slice(0) followed by splice(idx, 1) on the copy (idx 0-based)
spliceOut(list, idx) == SubSeq(list, 1, idx) \o SubSeq(list, idx + 2, Len(list))

(* ------------------------------ documents ------------------------------ *)

Undefined == [t |-> "undefined"]
Num(n) == [t |-> "number", n |-> n]
Obj(kv) == [t |-> "object", kv |-> kv]

\* lodash get(value, keyPath): undefined when the path is absent
RECURSIVE selectValue(_, _)
selectValue(value, keyPath) ==
  IF Len(keyPath) = 0 THEN value
  ELSE IF value.t = "object" /\ Head(keyPath) \in DOMAIN value.kv
       THEN selectValue(value.kv[Head(keyPath)], Tail(keyPath))
  ELSE Undefined

\* ./update: a new document with only the addressed slice replaced
RECURSIVE update(_, _, _, _)
update(value, keyPath, valueUpdate, schema) ==
  IF Len(keyPath) = 0 THEN valueUpdate
  ELSE LET kv == IF value.t = "object" THEN value.kv ELSE <<>>
           key == Head(keyPath)
           child == IF key \in DOMAIN kv THEN kv[key] ELSE Undefined
       IN Obj([k \in DOMAIN kv \cup {key} |->
                 IF k = key THEN update(child, Tail(keyPath), valueUpdate, schema)
                 ELSE kv[k]])

(* ------------------------- schema and validation ------------------------ *)

\* A schema is the ordered list of key paths that must be present.
SchemaNone == <<>>
SchemaReq == << <<SegA>>, <<SegAB>>, <<SegA, SegB>> >>

\* Records made by the validator are fresh objects: ref 0 is never the
\* identity of a record held by the caller or stored in an external list.
RECURSIVE SchemaValidate(_, _)
SchemaValidate(schema, value) ==
  IF Len(schema) = 0 THEN <<>>
  ELSE (IF selectValue(value, Head(schema)) = Undefined
        THEN << [ref |-> 0, field |-> fieldOf(Head(schema)), message |-> "required"] >>
        ELSE <<>>)
       \o SchemaValidate(Tail(schema), value)

\* A validator supplied by the caller of create: the document must be an
\* object; its error is reported on the root field.
objectValidate(schema, value) ==
  IF value.t = "object" THEN <<>>
  ELSE << [ref |-> 0, field |-> fieldOf(<<>>), message |-> "object"] >>

\* root.validate(schema, value): the validator the Root was created with
validateWith(validate, schema, value) ==
  IF validate = "Schema.validate" THEN SchemaValidate(schema, value)
  ELSE objectValidate(schema, value)

(* ------------------------------- Values -------------------------------- *)

\* A Value is a reference to an instance: the ValueRoot roots[root] itself
\* (branch = 0, keyPath = []) or a ValueBranch (branch >= 1).
ValueRootAt(i) == [root |-> i, keyPath |-> <<>>, branch |-> 0]

\* new ValueBranch(root, keyPath), allocated as instance number `fresh`
ValueBranch(root, keyPath, fresh) == [root |-> root, keyPath |-> keyPath, branch |-> fresh]

\* ./keyPath applied to a key that already is an ordered list of segments
makeKeyPath(key) == key

\* mutant of select: the key path of the receiver is dropped
select_replacesPath(this, key, fresh) ==
  LET keyPath == makeKeyPath(key)
  IN IF Len(keyPath) = 0 THEN this
     ELSE ValueBranch(this.root, keyPath, fresh)

\* Value.select
select(this, key, fresh) ==
  LET keyPath == makeKeyPath(key)
  IN IF Len(keyPath) = 0 THEN this
     ELSE ValueBranch(this.root, this.keyPath \o keyPath, fresh)

\* mutant of ValueBranch_parent: a ValueBranch is made whatever the length
ValueBranch_parent_alwaysBranch(this, fresh) ==
  ValueBranch(this.root, SubSeq(this.keyPath, 1, Len(this.keyPath) - 1), fresh)

\* get parent of a ValueBranch: keyPath.slice(), pop(), new ValueBranch
ValueBranch_parent(this, fresh) ==
  IF Len(this.keyPath) = 1 THEN ValueRootAt(this.root)
  ELSE ValueBranch(this.root, SubSeq(this.keyPath, 1, Len(this.keyPath) - 1), fresh)

\* an instance number no live ValueBranch of `live` has
freshBranch(live) == CHOOSE n \in 1..(Cardinality(live) + 1) : \A v \in live : v.branch # n

filterErrorListByKeyPath(errorList, keyPath) ==
  LET field == fieldOf(keyPath)
      keep(error) == error.field = field
  IN SelectSeq(errorList, keep)

\* mutant of filterErrorListByKeyPathPrefix: the separator after the prefix is not tested
filterErrorListByKeyPathPrefix_noSeparator(errorList, keyPath) ==
  IF Len(keyPath) = 0 THEN errorList
  ELSE LET field == fieldOf(keyPath)
           length == Len(field)
           keep(error) == error.field = field \/ slice0(error.field, length) = field
       IN SelectSeq(errorList, keep)

filterErrorListByKeyPathPrefix(errorList, keyPath) ==
  IF Len(keyPath) = 0 THEN errorList
  ELSE LET field == fieldOf(keyPath)
           length == Len(field)
           keep(error) ==
             \/ error.field = field
             \/ slice0(error.field, length) = field /\ charAt(error.field, length) = <<".">>
       IN SelectSeq(errorList, keep)

\* get errorList, on the heap `heap`
get_errorList(heap, this) ==
  LET validateErrorList == filterErrorListByKeyPath(heap[this.root].errorList, this.keyPath)
      externalErrorList == filterErrorListByKeyPath(heap[this.root].externalErrorList, this.keyPath)
  IN validateErrorList \o externalErrorList

\* get completeErrorList, on the heap `heap`
get_completeErrorList(heap, this) ==
  LET validateErrorList == filterErrorListByKeyPathPrefix(heap[this.root].errorList, this.keyPath)
      externalErrorList == filterErrorListByKeyPathPrefix(heap[this.root].externalErrorList, this.keyPath)
  IN validateErrorList \o externalErrorList

\* new ValueRoot({...}): the fields the constructor stores
ValueRoot(values) ==
  [schema |-> values.schema, value |-> values.value, onChange |-> values.onChange,
   params |-> values.params, errorList |-> values.errorList,
   externalErrorList |-> values.externalErrorList, validate |-> values.validate]

\* mutant of createRoot: the errorList of the update is dropped
createRoot_keepsErrorList(heap, this, upd) ==
  LET root == heap[this.root]
      values == [schema |-> root.schema, value |-> root.value, onChange |-> root.onChange,
                 params |-> root.params, errorList |-> root.errorList,
                 externalErrorList |-> root.externalErrorList, validate |-> root.validate]
  IN ValueRoot([k \in DOMAIN values \cup DOMAIN upd |->
                  IF k \in DOMAIN upd /\ k # "errorList" THEN upd[k] ELSE values[k]])

\* mutant of createRoot: externalErrorList is not carried over
createRoot_dropsExternal(heap, this, upd) ==
  LET root == heap[this.root]
      values == [schema |-> root.schema, value |-> root.value, onChange |-> root.onChange,
                 params |-> root.params, errorList |-> root.errorList,
                 externalErrorList |-> <<>>, validate |-> root.validate]
  IN ValueRoot([k \in DOMAIN values \cup DOMAIN upd |->
                  IF k \in DOMAIN upd THEN upd[k] ELSE values[k]])

\* Value.createRoot: {...values, ...update} handed to the constructor
createRoot(heap, this, upd) ==
  LET root == heap[this.root]
      values == [schema |-> root.schema, value |-> root.value, onChange |-> root.onChange,
                 params |-> root.params, errorList |-> root.errorList,
                 externalErrorList |-> root.externalErrorList, validate |-> root.validate]
  IN ValueRoot([k \in DOMAIN values \cup DOMAIN upd |->
                  IF k \in DOMAIN upd THEN upd[k] ELSE values[k]])

\* mutant of valueOf: a ValueBranch reads the whole document
valueOf_wholeDocument(heap, this) == heap[this.root].value

\* get value of a ValueRoot (the stored field) or a ValueBranch (line 204)
valueOf(heap, this) ==
  IF this.branch = 0 THEN heap[this.root].value
  ELSE selectValue(heap[this.root].value, this.keyPath)

(* -------------------------------- create ------------------------------- *)

\* records the caller holds and passes to updateError / addError / removeError
CallerError1 == [ref |-> 1, field |-> fieldOf(<<SegA>>), message |-> "m1"]
CallerError2 == [ref |-> 2, field |-> fieldOf(<<SegAB>>), message |-> "m2"]

\* records the caller passes to create
External1 == [ref |-> 3, field |-> fieldOf(<<SegAB>>), message |-> "e1"]
External2 == [ref |-> 4, field |-> fieldOf(<<SegA, SegB>>), message |-> "e2"]
Supplied1 == [ref |-> 5, field |-> <<"x">>, message |-> "s1"]
Supplied2 == [ref |-> 6, field |-> fieldOf(<<SegA>>), message |-> "s2"]

\* the option objects create is called with; an absent key takes its default
CreateOptions ==
  { [schema |-> SchemaNone, validate |-> "objectValidate"],
    [schema |-> SchemaReq, value |-> Obj(SegA :> Num(2)), onChange |-> "onChange",
     params |-> [p |-> 1, q |-> 1], externalErrorList |-> <<External1, External2>>],
    [schema |-> SchemaReq, value |-> Obj(SegA :> Obj(SegB :> Num(2))), onChange |-> "onChange",
     errorList |-> <<Supplied1, Supplied2>>,
     externalErrorList |-> <<External1, External2, External1>>] }

\* a destructured option with its default
option(opts, key, default) == IF key \in DOMAIN opts THEN opts[key] ELSE default

\* create: errorList defaults to null, and null is replaced by validate(schema, value)
create(opts) ==
  LET schema == opts.schema
      value == option(opts, "value", Obj(<<>>))
      onChange == option(opts, "onChange", "noop")
      params == option(opts, "params", <<>>)
      externalErrorList == option(opts, "externalErrorList", <<>>)
      validate == option(opts, "validate", "Schema.validate")
      errorList == IF "errorList" \in DOMAIN opts THEN opts.errorList
                   ELSE validateWith(validate, schema, value)
  IN ValueRoot([schema |-> schema, value |-> value, onChange |-> onChange, params |-> params,
                errorList |-> errorList, externalErrorList |-> externalErrorList,
                validate |-> validate])

(* ----------------------------- the caller ------------------------------ *)

\* key paths the caller selects before a call
KeyPaths == { <<>>, <<SegA>>, <<SegA, SegB>> }

\* documents the caller writes
Documents == { Num(1), Obj(SegB :> Num(1)) }

\* params the caller merges
ParamUpdates == { [p |-> 2] }

\* schemas the caller sets
Schemas == { SchemaNone, SchemaReq }

\* the argument of updateError: a single record or an array of records
ErrorArguments ==
  { [isArray |-> FALSE, error |-> CallerError1],
    [isArray |-> TRUE, error |-> <<CallerError1, CallerError2>>] }

\* every record stored in an external error list of the Roots of `heap`
RECURSIVE storedErrors(_)
storedErrors(heap) ==
  IF Len(heap) = 0 THEN {}
  ELSE {Head(heap).externalErrorList[i] : i \in DOMAIN Head(heap).externalErrorList}
       \cup storedErrors(Tail(heap))

\* the identity of a newly allocated error record: one no live record has
newRef(heap, n) ==
  LET used == {e.ref : e \in storedErrors(heap)} \cup {0, 1, 2, 3, 4, 5, 6}
  IN (CHOOSE m \in used : \A u \in used : u <= m) + n

\* mutant of stamped: the caller's record itself is stored, its field set
stamped_sameObject(error, field, ref) ==
  [k \in DOMAIN error \cup {"field"} |-> IF k = "field" THEN field ELSE error[k]]

\* mutant of stamped: a field the caller supplied is kept
stamped_keepsField(error, field, ref) ==
  [k \in DOMAIN error \cup {"field"} |->
     IF k = "ref" THEN ref ELSE IF k \in DOMAIN error THEN error[k] ELSE field]

\* {...error, field}: a new object with the properties of error and field on top
stamped(error, field, ref) ==
  [k \in DOMAIN error \cup {"field"} |->
     IF k = "field" THEN field ELSE IF k = "ref" THEN ref ELSE error[k]]

\* the Value the caller holds: root.select(keyPath) on a Root of the heap
Receivers == { select(ValueRootAt(r), p, 1) : r \in 1..Len(roots), p \in KeyPaths }

NoValue == [root |-> 0, keyPath |-> <<>>, branch |-> 0]

\* mutant of onChangeCall: the key path of the new Root is passed
onChangeCall_rootKeyPath(root, next, keyPath) ==
  [onChange |-> root.onChange, root |-> next, keyPath |-> <<>>]

\* one call of root.onChange(nextRoot, keyPath)
onChangeCall(root, next, keyPath) == [onChange |-> root.onChange, root |-> next, keyPath |-> keyPath]

(* ------------------------------ operations ----------------------------- *)

\* the record of a call: what it was made with and what it returned; `heap`
\* and `before` are the numbers of Roots and of onChange calls when it began
called(op, this, arg, suppressUpdate, ret) ==
  [op |-> op, this |-> this, arg |-> arg, suppressUpdate |-> suppressUpdate,
   contextual |-> suppressUpdateContextual, heap |-> Len(roots),
   before |-> Len(notified), ret |-> ret]

\* mutant of onChangeCalls: the contextual flag is not consulted
onChangeCalls_ignoresFlag(this, suppressUpdate, next) ==
  IF ~suppressUpdate
  THEN <<onChangeCall(roots[this.root], next, this.keyPath)>>
  ELSE <<>>

\* if (!suppressUpdate && !suppressUpdateContextual) this.root.onChange(nextRoot, this.keyPath)
onChangeCalls(this, suppressUpdate, next) ==
  IF ~suppressUpdate /\ ~suppressUpdateContextual
  THEN <<onChangeCall(roots[this.root], next, this.keyPath)>>
  ELSE <<>>

\* suppressUpdate(tx), up to the call of tx
suppressUpdate_enter ==
  /\ Len(roots) < MaxRoots
  /\ scopes < MaxDepth
  /\ suppressUpdateContextual' = TRUE
  /\ scopes' = scopes + 1
  /\ last' = called("suppressUpdate", NoValue, "tx", FALSE, NoValue)
  /\ UNCHANGED <<roots, notified>>

\* mutant of flagAfterFinally: the flag is reset on normal return only
flagAfterFinally_noFinally(how) == how # "returned"

\* the value the finally block of suppressUpdate leaves in the flag, however
\* tx ended
flagAfterFinally(how) == FALSE

\* mutant of suppressUpdate_finally: the flag is left set while another
\* suppressUpdate is still running its tx
suppressUpdate_finally_restores(how) ==
  /\ Len(roots) < MaxRoots
  /\ scopes > 0
  /\ suppressUpdateContextual' = (scopes > 1)
  /\ scopes' = scopes - 1
  /\ last' = called("suppressUpdate.exit", NoValue, how, FALSE, NoValue)
  /\ UNCHANGED <<roots, notified>>

\* suppressUpdate(tx), from the end of tx: it returned or raised, and the
\* finally block runs; a raised error goes on to the caller
suppressUpdate_finally(how) ==
  /\ Len(roots) < MaxRoots
  /\ scopes > 0
  /\ suppressUpdateContextual' = flagAfterFinally(how)
  /\ scopes' = scopes - 1
  /\ last' = called("suppressUpdate.exit", NoValue, how, FALSE, NoValue)
  /\ UNCHANGED <<roots, notified>>

\* mutant of Value_updateParams: the new params replace the old ones
Value_updateParams_replaces(this, params, suppressUpdate) ==
  LET root == roots[this.root]
      nextRoot == createRoot(roots, this, [params |-> params])
      next == Len(roots) + 1
      calls == onChangeCalls(this, suppressUpdate, next)
  IN /\ roots' = Append(roots, nextRoot)
     /\ notified' = notified \o calls
     /\ last' = called("updateParams", this, params, suppressUpdate,
                       select(ValueRootAt(next), this.keyPath, freshBranch({this})))
     /\ UNCHANGED <<suppressUpdateContextual, scopes>>

Value_updateParams(this, params, suppressUpdate) ==
  LET root == roots[this.root]
      merged == [k \in DOMAIN root.params \cup DOMAIN params |->
                   IF k \in DOMAIN params THEN params[k] ELSE root.params[k]]
      nextRoot == createRoot(roots, this, [params |-> merged])
      next == Len(roots) + 1
      calls == onChangeCalls(this, suppressUpdate, next)
  IN /\ roots' = Append(roots, nextRoot)
     /\ notified' = notified \o calls
     /\ last' = called("updateParams", this, params, suppressUpdate,
                       select(ValueRootAt(next), this.keyPath, freshBranch({this})))
     /\ UNCHANGED <<suppressUpdateContextual, scopes>>

\* mutant of Value_update: the update is applied to the newest Root
Value_update_onNewest(this, valueUpdate, suppressUpdate) ==
  LET root == roots[Len(roots)]
      value == IF Len(this.keyPath) = 0 THEN valueUpdate
               ELSE update(root.value, this.keyPath, valueUpdate, root.schema)
      errorList == validateWith(root.validate, root.schema, value)
      nextRoot == createRoot(roots, ValueRootAt(Len(roots)),
                             [value |-> value, errorList |-> errorList])
      next == Len(roots) + 1
      calls == onChangeCalls(this, suppressUpdate, next)
  IN /\ roots' = Append(roots, nextRoot)
     /\ notified' = notified \o calls
     /\ last' = called("update", this, valueUpdate, suppressUpdate,
                       select(ValueRootAt(next), this.keyPath, freshBranch({this})))
     /\ UNCHANGED <<suppressUpdateContextual, scopes>>

Value_update(this, valueUpdate, suppressUpdate) ==
  LET root == roots[this.root]
      value == IF Len(this.keyPath) = 0 THEN valueUpdate
               ELSE update(root.value, this.keyPath, valueUpdate, root.schema)
      errorList == validateWith(root.validate, root.schema, value)
      nextRoot == createRoot(roots, this, [value |-> value, errorList |-> errorList])
      next == Len(roots) + 1
      calls == onChangeCalls(this, suppressUpdate, next)
  IN /\ roots' = Append(roots, nextRoot)
     /\ notified' = notified \o calls
     /\ last' = called("update", this, valueUpdate, suppressUpdate,
                       select(ValueRootAt(next), this.keyPath, freshBranch({this})))
     /\ UNCHANGED <<suppressUpdateContextual, scopes>>

\* mutant of Value_updateError: the records are appended to the list held
Value_updateError_appends(this, error, suppressUpdate) ==
  LET root == roots[this.root]
      field == fieldOf(this.keyPath)
      externalErrorList ==
        root.externalErrorList \o
        (IF error.isArray
         THEN [i \in DOMAIN error.error |-> stamped(error.error[i], field, newRef(roots, i))]
         ELSE <<stamped(error.error, field, newRef(roots, 1))>>)
      nextRoot == createRoot(roots, this, [externalErrorList |-> externalErrorList])
      next == Len(roots) + 1
      calls == onChangeCalls(this, suppressUpdate, next)
  IN /\ roots' = Append(roots, nextRoot)
     /\ notified' = notified \o calls
     /\ last' = called("updateError", this, error, suppressUpdate,
                       select(ValueRootAt(next), this.keyPath, freshBranch({this})))
     /\ UNCHANGED <<suppressUpdateContextual, scopes>>

Value_updateError(this, error, suppressUpdate) ==
  LET root == roots[this.root]
      field == fieldOf(this.keyPath)
      externalErrorList ==
        IF error.isArray
        THEN [i \in DOMAIN error.error |-> stamped(error.error[i], field, newRef(roots, i))]
        ELSE <<stamped(error.error, field, newRef(roots, 1))>>
      nextRoot == createRoot(roots, this, [externalErrorList |-> externalErrorList])
      next == Len(roots) + 1
      calls == onChangeCalls(this, suppressUpdate, next)
  IN /\ roots' = Append(roots, nextRoot)
     /\ notified' = notified \o calls
     /\ last' = called("updateError", this, error, suppressUpdate,
                       select(ValueRootAt(next), this.keyPath, freshBranch({this})))
     /\ UNCHANGED <<suppressUpdateContextual, scopes>>

Value_addError(this, error, suppressUpdate) ==
  LET root == roots[this.root]
      copy == stamped(error, fieldOf(this.keyPath), newRef(roots, 1))
      externalErrorList == root.externalErrorList \o <<copy>>
      nextRoot == createRoot(roots, this, [externalErrorList |-> externalErrorList])
      next == Len(roots) + 1
      calls == onChangeCalls(this, suppressUpdate, next)
  IN /\ roots' = Append(roots, nextRoot)
     /\ notified' = notified \o calls
     /\ last' = called("addError", this, error, suppressUpdate,
                       select(ValueRootAt(next), this.keyPath, freshBranch({this})))
     /\ UNCHANGED <<suppressUpdateContextual, scopes>>

\* mutant of Value_removeError: only a record whose field is the receiver's
\* is looked for
Value_removeError_scoped(this, error, suppressUpdate) ==
  LET root == roots[this.root]
      idx == IF error.field = fieldOf(this.keyPath)
             THEN indexOf(root.externalErrorList, error) ELSE -1
      externalErrorList == spliceOut(root.externalErrorList, idx)
      nextRoot == createRoot(roots, this, [externalErrorList |-> externalErrorList])
      next == Len(roots) + 1
      calls == onChangeCalls(this, suppressUpdate, next)
  IN /\ IF idx > -1
        THEN /\ roots' = Append(roots, nextRoot)
             /\ notified' = notified \o calls
             /\ last' = called("removeError", this, error, suppressUpdate,
                               select(ValueRootAt(next), this.keyPath, freshBranch({this})))
             /\ UNCHANGED <<suppressUpdateContextual, scopes>>
        ELSE /\ last' = called("removeError", this, error, suppressUpdate, this)
             /\ UNCHANGED <<roots, notified, suppressUpdateContextual, scopes>>

\* mutant of Value_removeError: splice acts on the list of the receiver's Root
\* itself, not on a copy
Value_removeError_inPlace(this, error, suppressUpdate) ==
  LET root == roots[this.root]
      idx == indexOf(root.externalErrorList, error)
      externalErrorList == spliceOut(root.externalErrorList, idx)
      spliced == [roots EXCEPT ![this.root].externalErrorList = externalErrorList]
      nextRoot == createRoot(spliced, this, [externalErrorList |-> externalErrorList])
      next == Len(roots) + 1
      calls == onChangeCalls(this, suppressUpdate, next)
  IN /\ IF idx > -1
        THEN /\ roots' = Append(spliced, nextRoot)
             /\ notified' = notified \o calls
             /\ last' = called("removeError", this, error, suppressUpdate,
                               select(ValueRootAt(next), this.keyPath, freshBranch({this})))
             /\ UNCHANGED <<suppressUpdateContextual, scopes>>
        ELSE /\ last' = called("removeError", this, error, suppressUpdate, this)
             /\ UNCHANGED <<roots, notified, suppressUpdateContextual, scopes>>

Value_removeError(this, error, suppressUpdate) ==
  LET root == roots[this.root]
      idx == indexOf(root.externalErrorList, error)
      externalErrorList == spliceOut(root.externalErrorList, idx)
      nextRoot == createRoot(roots, this, [externalErrorList |-> externalErrorList])
      next == Len(roots) + 1
      calls == onChangeCalls(this, suppressUpdate, next)
  IN /\ IF idx > -1
        THEN /\ roots' = Append(roots, nextRoot)
             /\ notified' = notified \o calls
             /\ last' = called("removeError", this, error, suppressUpdate,
                               select(ValueRootAt(next), this.keyPath, freshBranch({this})))
             /\ UNCHANGED <<suppressUpdateContextual, scopes>>
        ELSE /\ last' = called("removeError", this, error, suppressUpdate, this)
             /\ UNCHANGED <<roots, notified, suppressUpdateContextual, scopes>>

\* mutant of ValueRoot_setSchema: the new Root is notified
ValueRoot_setSchema_notifies(this, schema) ==
  LET root == roots[this.root]
      errorList == validateWith(root.validate, schema, root.value)
      nextRoot == createRoot(roots, this, [schema |-> schema, errorList |-> errorList])
      next == Len(roots) + 1
  IN /\ roots' = Append(roots, nextRoot)
     /\ notified' = notified \o onChangeCalls(this, FALSE, next)
     /\ last' = called("setSchema", this, schema, FALSE, ValueRootAt(next))
     /\ UNCHANGED <<suppressUpdateContextual, scopes>>

ValueRoot_setSchema(this, schema) ==
  LET root == roots[this.root]
      errorList == validateWith(root.validate, schema, root.value)
      nextRoot == createRoot(roots, this, [schema |-> schema, errorList |-> errorList])
      next == Len(roots) + 1
  IN /\ roots' = Append(roots, nextRoot)
     /\ last' = called("setSchema", this, schema, FALSE, ValueRootAt(next))
     /\ UNCHANGED <<notified, suppressUpdateContextual, scopes>>

(* ---------------------------- specification ---------------------------- *)

Init ==
  /\ roots \in { <<create(opts)>> : opts \in CreateOptions }
  /\ suppressUpdateContextual = FALSE
  /\ scopes = 0
  /\ notified = <<>>
  /\ last = [op |-> "create", this |-> NoValue, arg |-> "options", suppressUpdate |-> FALSE,
             contextual |-> FALSE, heap |-> 0, before |-> 0, ret |-> ValueRootAt(1)]

SuppressEnter == suppressUpdate_enter

SuppressExit == \E how \in {"returned", "raised"} : suppressUpdate_finally(how)

UpdateParams ==
  /\ Len(roots) < MaxRoots
  /\ \E this \in Receivers, params \in ParamUpdates, suppressUpdate \in BOOLEAN :
    Value_updateParams(this, params, suppressUpdate)

Update ==
  /\ Len(roots) < MaxRoots
  /\ \E this \in Receivers, valueUpdate \in Documents, suppressUpdate \in BOOLEAN :
    Value_update(this, valueUpdate, suppressUpdate)

UpdateError ==
  /\ Len(roots) < MaxRoots
  /\ \E this \in Receivers, error \in ErrorArguments, suppressUpdate \in BOOLEAN :
    Value_updateError(this, error, suppressUpdate)

AddError ==
  /\ Len(roots) < MaxRoots
  /\ \E this \in Receivers, error \in {CallerError1}, suppressUpdate \in BOOLEAN :
    Value_addError(this, error, suppressUpdate)

RemoveError ==
  /\ Len(roots) < MaxRoots
  /\ \E this \in Receivers, suppressUpdate \in BOOLEAN :
    \E error \in {CallerError1} \cup storedErrors(<<roots[this.root]>>) :
      Value_removeError(this, error, suppressUpdate)

SetSchema ==
  /\ Len(roots) < MaxRoots
  /\ \E r \in 1..Len(roots), schema \in Schemas : ValueRoot_setSchema(ValueRootAt(r), schema)

Next ==
  \/ SuppressEnter
  \/ SuppressExit
  \/ UpdateParams
  \/ Update
  \/ UpdateError
  \/ AddError
  \/ RemoveError
  \/ SetSchema

Spec == Init /\ [][Next]_vars

TypeOK ==
  /\ Len(roots) \in 1..MaxRoots
  /\ suppressUpdateContextual \in BOOLEAN
  /\ scopes \in 0..MaxDepth

(* ------------------- sequences of calls on held Values ----------------- *)

\* calls that allocate a Root, made one after another in a sequence
MaxCalls == 2

\* key paths of the Values of a sequence: the root and two disjoint fields
SeqKeyPaths == { <<>>, <<SegA>>, <<SegB>> }

\* the Values the caller of a sequence calls on: the Value the previous call
\* returned, or a Value selected on the Root made by create, whatever Roots
\* were made since
SeqReceivers == {last.ret} \cup { select(ValueRootAt(1), p, 1) : p \in SeqKeyPaths }

\* the records the caller of a sequence passes to addError and removeError:
\* one it made itself, one it also passed to create, and those it reads back
\* from the error list of the Root it calls on
SeqErrors(this) == {CallerError1, External1} \cup storedErrors(<<roots[this.root]>>)

SeqUpdate ==
  /\ Len(roots) < 1 + MaxCalls
  /\ \E this \in SeqReceivers, valueUpdate \in Documents :
       Value_update(this, valueUpdate, FALSE)

SeqUpdateError ==
  /\ Len(roots) < 1 + MaxCalls
  /\ \E this \in SeqReceivers, error \in ErrorArguments :
       Value_updateError(this, error, FALSE)

SeqAddError ==
  /\ Len(roots) < 1 + MaxCalls
  /\ \E this \in SeqReceivers :
       \E error \in SeqErrors(this) : Value_addError(this, error, FALSE)

SeqRemoveError ==
  /\ Len(roots) < 1 + MaxCalls
  /\ \E this \in SeqReceivers :
       \E error \in SeqErrors(this) : Value_removeError(this, error, FALSE)

NextSeq ==
  \/ SeqUpdate
  \/ SeqUpdateError
  \/ SeqAddError
  \/ SeqRemoveError

SpecSeq == Init /\ [][NextSeq]_vars

(* ------------------------ select and parent calls ---------------------- *)

\* segments of the longest key path a Value of the run has
MaxPath == 3

\* v.select(key) on the Value the caller holds, the one the previous call
\* returned
Value_select(this, key) ==
  /\ last' = called("select", this, key, FALSE, select(this, key, freshBranch({this})))
  /\ UNCHANGED <<roots, suppressUpdateContextual, scopes, notified>>

Select ==
  \E key \in KeyPaths :
    /\ Len(last.ret.keyPath) + Len(key) <= MaxPath
    /\ Value_select(last.ret, key)

\* v.parent on the ValueBranch the caller holds
Parent ==
  /\ last.ret.branch # 0
  /\ last' = called("parent", last.ret, "parent", FALSE,
                    ValueBranch_parent(last.ret, freshBranch({last.ret})))
  /\ UNCHANGED <<roots, suppressUpdateContextual, scopes, notified>>

\* a mutating call on the Value the caller holds
HeldUpdate ==
  /\ Len(roots) < MaxRoots
  /\ Value_update(last.ret, Num(1), FALSE)

HeldAddError ==
  /\ Len(roots) < MaxRoots
  /\ Value_addError(last.ret, CallerError1, FALSE)

HeldSetSchema ==
  /\ Len(roots) < MaxRoots
  /\ last.ret.branch = 0
  /\ ValueRoot_setSchema(last.ret, SchemaReq)

NextSelect ==
  \/ Select
  \/ Parent
  \/ HeldUpdate
  \/ HeldAddError
  \/ HeldSetSchema

SpecSelect == Init /\ [][NextSelect]_vars

(* ------------------------------ properties ---------------------------- *)

\* the onChange calls made by the most recent call
CallsMade == SubSeq(notified, last.before + 1, Len(notified))

\* the most recent call allocated a Root
MadeRoot == Len(roots) = last.heap + 1

NotifyingOps == {"update", "updateParams", "updateError", "addError", "removeError"}

\* the most recent call is one of the five notifying methods and, for
\* removeError, an entry of the receiver's external list is the very record
FoundItsRecord ==
  \/ last.op # "removeError"
  \/ \E i \in DOMAIN roots[last.this.root].externalErrorList :
       roots[last.this.root].externalErrorList[i].ref = last.arg.ref

Effective == last.op \in NotifyingOps /\ FoundItsRecord

\* C1: suppressUpdate leaves the flag as it found it (seen here on a call
\* whose callback makes no call of its own), so inside the callback of an
\* outer suppressUpdate no effective call invokes onChange, also after a
\* nested suppressUpdate has exited
C1_FlagRestoredOnExit ==
  [][ /\ last.op = "suppressUpdate" /\ last'.op = "suppressUpdate.exit" =>
           suppressUpdateContextual' = last.contextual
      /\ last'.op \in NotifyingOps /\ Len(roots') > Len(roots) /\ scopes > 0 =>
           notified' = notified
    ]_vars

\* C2: an effective call invokes onChange if and only if its suppressNotify
\* argument is false and the process-wide flag is clear
C2_NotifiedIffNotSuppressed ==
  Effective => (CallsMade # <<>> <=> (~last.suppressUpdate /\ ~last.contextual))

C2_Witness ==
  /\ last.op = "removeError" /\ FoundItsRecord
  /\ last.contextual /\ ~last.suppressUpdate
  /\ CallsMade = <<>>

\* C3: a non-suppressed effective call on v invokes onChange exactly once,
\* with the new Root and v.keyPath, and returns a Value at v.keyPath on that
\* same new Root
C3_NotifiedOnceWithNewRoot ==
  Effective /\ ~last.suppressUpdate /\ ~last.contextual =>
    /\ MadeRoot
    /\ CallsMade = << [onChange |-> roots[last.this.root].onChange,
                       root |-> Len(roots), keyPath |-> last.this.keyPath] >>
    /\ last.ret.keyPath = last.this.keyPath
    /\ last.ret.root = CallsMade[1].root
    /\ last.ret.root # last.this.root

C3_Witness ==
  /\ last.op = "addError" /\ ~last.suppressUpdate /\ ~last.contextual
  /\ last.this.keyPath = <<SegA, SegB>>
  /\ Len(CallsMade) = 1

\* C4 as stated: every call that returns a new Root while nothing suppresses
\* it, setSchema included, invokes onChange with the new Root
C4_EveryNewRootNotified ==
  last.op \in NotifyingOps \cup {"setSchema"} /\ MadeRoot
  /\ ~last.suppressUpdate /\ ~last.contextual =>
    Len(CallsMade) = 1 /\ CallsMade[1].root = Len(roots)

\* C4 amended: the five notifying methods invoke onChange with the new Root
\* when nothing suppresses them; setSchema returns a new Root and never
\* invokes onChange
C4_NotifiedExceptSetSchema ==
  /\ Effective /\ ~last.suppressUpdate /\ ~last.contextual =>
       MadeRoot /\ Len(CallsMade) = 1 /\ CallsMade[1].root = Len(roots)
  /\ last.op = "setSchema" =>
       MadeRoot /\ last.ret = ValueRootAt(Len(roots)) /\ CallsMade = <<>>

C4_Witness ==
  /\ last.op = "setSchema" /\ ~last.contextual /\ MadeRoot
  /\ roots[last.ret.root].schema # roots[last.this.root].schema
  /\ notified = <<>>

\* validate(root.schema, root.document) of a Root of the heap
Validated(r) == validateWith(roots[r].validate, roots[r].schema, roots[r].value)

\* C5 as stated: the Root of the Value returned by any mutating call has
\* exactly the validation errors of its schema and document
C5_ErrorsAreValidated ==
  last.op \in NotifyingOps \cup {"setSchema"} =>
    roots[last.ret.root].errorList = Validated(last.ret.root)

\* C5 amended: update and setSchema return a Root whose validation errors are
\* exactly validate(schema, document); the other mutating calls return a Root
\* with the schema, document and validation error list of the receiver's Root
C5_ErrorsValidatedOrCarried ==
  /\ last.op \in {"update", "setSchema"} =>
       roots[last.ret.root].errorList = Validated(last.ret.root)
  /\ last.op \in {"updateParams", "updateError", "addError", "removeError"} =>
       /\ roots[last.ret.root].errorList = roots[last.this.root].errorList
       /\ roots[last.ret.root].schema = roots[last.this.root].schema
       /\ roots[last.ret.root].value = roots[last.this.root].value

C5_Witness ==
  /\ last.op = "update"
  /\ roots[last.this.root].errorList # Validated(last.this.root)
  /\ roots[last.ret.root].errorList = Validated(last.ret.root)
  /\ roots[last.ret.root].errorList # <<>>

\* key paths at which documents and error lists are read
QueryPaths ==
  { <<>>, <<SegA>>, <<SegB>>, <<SegAB>>, <<SegA, SegB>>, <<SegA, SegA>>, <<SegB, SegA>> }

IsPrefix(p, q) == Len(p) <= Len(q) /\ SubSeq(q, 1, Len(p)) = p

\* C6: update(x) at key path p makes a Root whose document has x at p and
\* what the old document has everywhere off p, whose validation errors are
\* validate(old schema, new document); the returned Value is at p and reads x
C6_UpdateReplacesSlice ==
  last.op = "update" =>
    LET old == roots[last.this.root]
        new == roots[last.ret.root]
        p == last.this.keyPath
        x == last.arg
    IN /\ MadeRoot /\ last.ret.root = Len(roots)
       /\ Len(p) = 0 => new.value = x
       /\ \A q \in QueryPaths :
            /\ IsPrefix(p, q) =>
                 selectValue(new.value, q) = selectValue(x, SubSeq(q, Len(p) + 1, Len(q)))
            /\ ~IsPrefix(p, q) /\ ~IsPrefix(q, p) =>
                 selectValue(new.value, q) = selectValue(old.value, q)
       /\ new.errorList = validateWith(old.validate, old.schema, new.value)
       /\ last.ret.keyPath = p
       /\ valueOf(roots, last.ret) = x

C6_Witness ==
  /\ last.op = "update" /\ last.this.keyPath = <<SegA, SegB>>
  /\ valueOf(roots, last.ret) = Num(1)
  /\ valueOf(roots, last.this) # Num(1)
  /\ roots[last.ret.root].errorList # roots[last.this.root].errorList

\* C7: update and setSchema (and updateParams) return a Root whose external
\* error list is the receiver Root's, entry for entry and in order, whether
\* or not the call was suppressed
C7_ExternalErrorsSurvive ==
  last.op \in {"update", "setSchema", "updateParams"} =>
    /\ MadeRoot
    /\ roots[last.ret.root].externalErrorList = roots[last.this.root].externalErrorList

C7_Witness ==
  /\ last.op = "update" /\ last.contextual
  /\ Len(roots[last.ret.root].externalErrorList) = 2
  /\ roots[last.ret.root].value # roots[last.this.root].value

\* the field string of a key path, written out
FieldString(p) ==
  IF p = <<>> THEN <<"d", "a", "t", "a">>
  ELSE IF p = <<SegA>> THEN <<"d", "a", "t", "a", ".", "a">>
  ELSE IF p = <<SegB>> THEN <<"d", "a", "t", "a", ".", "b">>
  ELSE IF p = <<SegAB>> THEN <<"d", "a", "t", "a", ".", "a", "b">>
  ELSE IF p = <<SegA, SegB>> THEN <<"d", "a", "t", "a", ".", "a", ".", "b">>
  ELSE IF p = <<SegA, SegA>> THEN <<"d", "a", "t", "a", ".", "a", ".", "a">>
  ELSE <<"d", "a", "t", "a", ".", "b", ".", "a">>

\* the field is the string f
AtField(error, f) == error.field = f

\* the field is the string f or goes on after f with a '.'
UnderField(error, f) ==
  \/ error.field = f
  \/ /\ Len(error.field) > Len(f)
     /\ \A i \in 1..Len(f) : error.field[i] = f[i]
     /\ error.field[Len(f) + 1] = "."

\* result holds, in order, exactly the entries of source that satisfy Keep
RECURSIVE ExactlyThose(_, _, _, _)
ExactlyThose(result, source, f, under) ==
  IF Len(source) = 0 THEN result = <<>>
  ELSE IF (IF under THEN UnderField(Head(source), f) ELSE AtField(Head(source), f))
       THEN /\ Len(result) > 0
            /\ Head(result) = Head(source)
            /\ ExactlyThose(Tail(result), Tail(source), f, under)
       ELSE ExactlyThose(result, Tail(source), f, under)

\* result is a list made of the chosen validation errors followed by the
\* chosen external errors
SplitsInto(result, errors, external, f, under) ==
  \E n \in 0..Len(result) :
    /\ ExactlyThose(SubSeq(result, 1, n), errors, f, under)
    /\ ExactlyThose(SubSeq(result, n + 1, Len(result)), external, f, under)

\* C8: at key path p, errorList is the validation errors then the external
\* errors whose field is 'data' joined with p, completeErrorList those whose
\* field is that string or goes on after it with '.', each group in source
\* order; at the empty key path completeErrorList is both lists entire.
\* Read on the newest Root: the heap only grows, so every Root is the newest
\* one in some reachable state.
C8_ErrorListsFiltered ==
  \A r \in {Len(roots)}, p \in QueryPaths :
    LET v == select(ValueRootAt(r), p, 1)
    IN /\ SplitsInto(get_errorList(roots, v), roots[r].errorList,
                     roots[r].externalErrorList, FieldString(p), FALSE)
       /\ p # <<>> =>
            SplitsInto(get_completeErrorList(roots, v), roots[r].errorList,
                       roots[r].externalErrorList, FieldString(p), TRUE)
       /\ p = <<>> =>
            get_completeErrorList(roots, v) = roots[r].errorList \o roots[r].externalErrorList

C8_Witness ==
  \E r \in 1..Len(roots) :
    LET v == select(ValueRootAt(r), <<SegA>>, 1)
        complete == get_completeErrorList(roots, v)
    IN /\ \E i \in DOMAIN roots[r].externalErrorList :
            roots[r].externalErrorList[i].field = FieldString(<<SegAB>>)
       /\ \E i \in DOMAIN roots[r].errorList :
            roots[r].errorList[i].field = FieldString(<<SegA, SegB>>)
       /\ Len(get_errorList(roots, v)) = 1
       /\ Len(complete) = 3
       /\ \A i \in DOMAIN complete : complete[i].field # FieldString(<<SegAB>>)
       /\ last.op = "addError" /\ last.ret.root = r /\ last.ret.keyPath = <<SegA>>

\* C9: removeError of a record that is no entry of the receiver Root's
\* external error list returns the receiver itself, allocates no Root, leaves
\* the list as it is and invokes no onChange, suppressed or not
C9_RemoveAbsentIsNoOp ==
  last.op = "removeError" /\ ~FoundItsRecord =>
    /\ last.ret = last.this
    /\ Len(roots) = last.heap
    /\ CallsMade = <<>>

C9_Witness ==
  /\ last.op = "removeError" /\ ~FoundItsRecord
  /\ ~last.suppressUpdate /\ ~last.contextual
  /\ last.this.branch # 0
  /\ Len(roots[last.this.root].externalErrorList) = 2
  /\ last.ret = last.this

\* C10: when the callback of suppressUpdate raises, the call ends raising
\* with the flag clear once the outermost call has exited, so that a
\* non-suppressed update issued next invokes onChange
C10_RaisedExitClearsFlag ==
  [][ /\ last'.op = "suppressUpdate.exit" /\ last'.arg = "raised" /\ scopes' = 0 =>
           ~suppressUpdateContextual'
      /\ /\ last.op = "suppressUpdate.exit" /\ last.arg = "raised" /\ scopes = 0
         /\ last'.op = "update" /\ ~last'.suppressUpdate
         => Len(notified') = Len(notified) + 1 /\ notified'[Len(notified')].root = last'.ret.root
    ]_vars

\* the outermost suppressUpdate has just ended raising, after its callback ran
\* with the flag set, and the flag is clear
C10_Witness ==
  /\ last.op = "suppressUpdate.exit" /\ last.arg = "raised"
  /\ last.contextual
  /\ scopes = 0 /\ ~suppressUpdateContextual

\* the two lists hold records with the same properties, entry for entry (the
\* identity of a record is not a property)
SameRecords(l1, l2) ==
  /\ Len(l1) = Len(l2)
  /\ \A i \in DOMAIN l1 : l1[i].field = l2[i].field /\ l1[i].message = l2[i].message

\* the records of the argument of updateError, as a list
RecordsOf(arg) == IF arg.isArray THEN arg.error ELSE <<arg.error>>

\* C11: updateError(E) leaves exactly the records of E in the external error
\* list, whatever it held, and updateError(E) again on the returned Value
\* leaves a structurally equal list; each addError makes the list one entry
\* longer, the new entry last and the prior entries kept in order, also when
\* an equal record is already there
C11_UpdateErrorIdempotentAddErrorAppends ==
  [][ /\ last'.op = "updateError" =>
           LET E == RecordsOf(last'.arg)
               list == roots'[last'.ret.root].externalErrorList
           IN /\ Len(list) = Len(E)
              /\ \A i \in DOMAIN E : list[i].message = E[i].message
      /\ /\ last.op = "updateError" /\ last'.op = "updateError"
         /\ last'.this = last.ret
         /\ last'.arg.isArray = last.arg.isArray /\ last'.arg = last.arg
         => SameRecords(roots'[last'.ret.root].externalErrorList,
                        roots[last.ret.root].externalErrorList)
      /\ last'.op = "addError" =>
           LET old == roots[last'.this.root].externalErrorList
               new == roots'[last'.ret.root].externalErrorList
           IN /\ Len(new) = Len(old) + 1
              /\ SubSeq(new, 1, Len(old)) = old
              /\ new[Len(new)].message = last'.arg.message
    ]_vars

\* updateError(E) with E an array was called on the Value returned by
\* updateError(E), whose Root held another list before the first call
C11_Witness ==
  /\ last.op = "updateError" /\ last.arg.isArray
  /\ Len(roots) = 3 /\ last.this.root = 2 /\ last.ret.root = 3
  /\ Len(roots[2].externalErrorList) = 2
  /\ SameRecords(roots[2].externalErrorList, roots[3].externalErrorList)
  /\ roots[2].externalErrorList # roots[3].externalErrorList
  /\ roots[1].externalErrorList # <<>>
  /\ ~SameRecords(roots[1].externalErrorList, roots[2].externalErrorList)

\* the entries of the external error list of the returned Value's Root that
\* the most recent updateError or addError stored
StoredByCall ==
  LET list == roots[last.ret.root].externalErrorList
  IN IF last.op = "updateError" THEN list ELSE SubSeq(list, Len(list), Len(list))

\* the records the caller passed to the most recent updateError or addError
PassedToCall == IF last.op = "updateError" THEN RecordsOf(last.arg) ELSE <<last.arg>>

\* C12: every record stored by updateError or addError on a Value at key path
\* p has the field 'data' joined with p, whatever field the caller's record
\* has, and is an entry of the errorList of the returned Value; it is a new
\* object with the other properties of the caller's record
C12_StoredRecordsStamped ==
  last.op \in {"updateError", "addError"} =>
    /\ Len(StoredByCall) = Len(PassedToCall)
    /\ \A i \in DOMAIN StoredByCall :
         LET stored == StoredByCall[i]
             read == get_errorList(roots, last.ret)
         IN /\ stored.field = FieldString(last.this.keyPath)
            /\ stored.message = PassedToCall[i].message
            /\ \A j \in DOMAIN PassedToCall : stored.ref # PassedToCall[j].ref
            /\ \E j \in DOMAIN read : read[j] = stored

C12_Witness ==
  /\ last.op = "updateError" /\ last.arg.isArray
  /\ last.this.keyPath = <<SegA, SegB>>
  /\ \A i \in DOMAIN last.arg.error : last.arg.error[i].field # FieldString(<<SegA, SegB>>)
  /\ Len(get_errorList(roots, last.ret)) >= 2
  /\ get_errorList(roots, last.this) # get_errorList(roots, last.ret)

\* C13: v.select([]) is v itself; v.select(p).select(q) is at key path
\* v.keyPath ++ p ++ q; every Value obtained by select is on the Root of v
C13_SelectComposes ==
  [][ /\ last'.op = "select" =>
           /\ last'.ret.root = last'.this.root
           /\ last'.ret.keyPath = last'.this.keyPath \o last'.arg
           /\ last'.arg = <<>> => last'.ret = last'.this
      /\ last.op = "select" /\ last'.op = "select" /\ last'.this = last.ret =>
           /\ last'.ret.keyPath = (last.this.keyPath \o last.arg) \o last'.arg
           /\ last'.ret.root = last.this.root
    ]_vars

\* select(q) was called on a ValueBranch on a Root made by a mutating call
\* and returned another ValueBranch, three segments deep
C13_Witness ==
  /\ last.op = "select" /\ last.this.branch # 0 /\ last.this.root = 2
  /\ last.arg = <<SegA, SegB>>
  /\ last.ret.keyPath = <<SegA, SegA, SegB>>
  /\ last.ret.branch # last.this.branch

\* C14: no call changes a Root that exists: after every call each Root of
\* the heap has the schema, document, params, validation error list and
\* external error list (contents and order) it had before, and what changed
\* is in one newly allocated Root
C14_RootsNeverMutated ==
  [][ /\ Len(roots') >= Len(roots)
      /\ \A r \in 1..Len(roots) : roots'[r] = roots[r]
      /\ roots' # roots => Len(roots') = Len(roots) + 1
    ]_vars

\* removeError took a record out: the new Root has one entry less and the
\* receiver's Root still has both of its entries
C14_Witness ==
  /\ last.op = "removeError" /\ FoundItsRecord /\ MadeRoot
  /\ Len(roots[last.this.root].externalErrorList) = 2
  /\ Len(roots[last.ret.root].externalErrorList) = 1
  /\ \E i \in 1..2 : roots[last.this.root].externalErrorList[i].ref = last.arg.ref

\* C15: updateParams(n) makes a Root whose params have every key of n with
\* the value n gives it and every other key of the old params with its old
\* value, and whose schema, document, validation error list, external error
\* list, onChange and validate are the old Root's; the validation error list
\* is carried over also when it is not what validate would return
C15_UpdateParamsFrame ==
  last.op = "updateParams" =>
    LET old == roots[last.this.root]
        new == roots[last.ret.root]
        n == last.arg
    IN /\ MadeRoot /\ last.ret.root = Len(roots)
       /\ DOMAIN new.params = DOMAIN old.params \cup DOMAIN n
       /\ \A k \in DOMAIN n : new.params[k] = n[k]
       /\ \A k \in DOMAIN old.params \ DOMAIN n : new.params[k] = old.params[k]
       /\ new.schema = old.schema
       /\ new.value = old.value
       /\ new.errorList = old.errorList
       /\ new.externalErrorList = old.externalErrorList
       /\ new.onChange = old.onChange
       /\ new.validate = old.validate

C15_Witness ==
  /\ last.op = "updateParams"
  /\ DOMAIN roots[last.this.root].params = {"p", "q"}
  /\ roots[last.this.root].params.p = 1
  /\ roots[last.ret.root].params.p = 2
  /\ roots[last.ret.root].params.q = 1
  /\ roots[last.ret.root].externalErrorList # <<>>

WellShaped(v) == IF v.branch = 0 THEN v.keyPath = <<>> ELSE Len(v.keyPath) >= 1

\* C17: after any sequence of select, parent and mutating calls the Value
\* called on and the Value returned are a ValueRoot with the empty key path
\* or a ValueBranch with a key path of at least one segment; the parent of a
\* ValueBranch one segment deep is its Root, and of a deeper one a
\* ValueBranch on the same Root at the key path less its last segment
C17_KeyPathShapes ==
  /\ WellShaped(last.ret)
  /\ WellShaped(last.this)
  /\ last.op = "parent" =>
       LET n == Len(last.this.keyPath)
       IN /\ last.this.branch # 0
          /\ last.ret.root = last.this.root
          /\ n = 1 => last.ret = ValueRootAt(last.this.root)
          /\ n > 1 => /\ last.ret.branch # 0
                      /\ Len(last.ret.keyPath) = n - 1
                      /\ \A i \in 1..(n - 1) : last.ret.keyPath[i] = last.this.keyPath[i]

\* parent was read on a ValueBranch one segment deep on a Root made by a
\* mutating call, and is that Root
C17_Witness ==
  /\ last.op = "parent" /\ Len(last.this.keyPath) = 1
  /\ last.this.root = 2 /\ last.this.branch # 0
  /\ last.ret.root = 2 /\ last.ret.branch = 0 /\ last.ret.keyPath = <<>>

\* the record is, by identity, an entry of the list
HasEntry(list, error) == \E i \in DOMAIN list : list[i].ref = error.ref

\* removeError(e) is called on the Value that addError or updateError just
\* returned, with a record e the caller passed to that call
RemovesWhatWasPassed ==
  /\ last.op \in {"addError", "updateError"}
  /\ last'.op = "removeError" /\ last'.this = last.ret
  /\ HasEntry(PassedToCall, last'.arg)

\* the removeError call found nothing: it returned its receiver, allocated no
\* Root and invoked no onChange
FoundNothing == last'.ret = last'.this /\ roots' = roots /\ notified' = notified

\* C18 as stated: removeError(e) with a record e that was passed to addError
\* or updateError finds nothing
C18_PassedRecordFindsNothing ==
  [][ RemovesWhatWasPassed => FoundNothing ]_vars

\* C18 amended: removeError(e) on the returned Value, with the record e that
\* was passed to addError or updateError, finds nothing unless e itself is an
\* entry of the external error list (after updateError it never is); the
\* stamped copies are still in the list after it. A stamped copy is taken out
\* exactly when the record passed is that copy, as read back from the list.
C18_PassedRecordRemovesNoCopy ==
  [][ /\ RemovesWhatWasPassed =>
           LET list == roots[last.ret.root].externalErrorList
               after == roots'[last'.ret.root].externalErrorList
           IN /\ ~HasEntry(list, last'.arg) => FoundNothing
              /\ last.op = "updateError" => ~HasEntry(list, last'.arg)
              /\ \A i \in DOMAIN StoredByCall :
                   /\ StoredByCall[i].ref # last'.arg.ref
                   /\ HasEntry(after, StoredByCall[i])
      /\ /\ last.op \in {"addError", "updateError"}
         /\ last'.op = "removeError" /\ last'.this = last.ret
         => LET after == roots'[last'.ret.root].externalErrorList
                read == get_completeErrorList(roots, ValueRootAt(last.ret.root))
            IN \A i \in DOMAIN StoredByCall :
                 /\ HasEntry(read, StoredByCall[i])
                 /\ HasEntry(after, StoredByCall[i]) <=> StoredByCall[i].ref # last'.arg.ref
    ]_vars

\* removeError was called with the record the caller made and passed to
\* addError or updateError, on a Value whose Root holds the stamped copy as
\* the last entry of its list, and found nothing
C18_Witness ==
  /\ last.op = "removeError" /\ last.arg = CallerError1 /\ ~FoundItsRecord
  /\ last.this.root = 2 /\ last.ret = last.this /\ Len(roots) = 2
  /\ LET list == roots[2].externalErrorList
     IN /\ Len(list) = Len(roots[1].externalErrorList) + 1
        /\ list[Len(list)].message = CallerError1.message
        /\ list[Len(list)].ref # CallerError1.ref
  /\ notified[Len(notified)].root = 2

\* C19: removeError on a Value at key path p, with a record that is an entry
\* of the external error list of the Value's Root, makes a Root whose list is
\* the old one less the first entry that is that record, whatever path the
\* field of the record addresses; document and validation errors are the old
\* ones, and a notification carries p
C19_RemoveErrorNotScoped ==
  last.op = "removeError" /\ FoundItsRecord =>
    LET old == roots[last.this.root]
        new == roots[last.ret.root]
        list == old.externalErrorList
        first == CHOOSE i \in DOMAIN list :
                   /\ list[i].ref = last.arg.ref
                   /\ \A j \in 1..(i - 1) : list[j].ref # last.arg.ref
    IN /\ MadeRoot /\ last.ret.root = Len(roots)
       /\ Len(new.externalErrorList) = Len(list) - 1
       /\ \A j \in 1..(first - 1) : new.externalErrorList[j] = list[j]
       /\ \A j \in first..(Len(list) - 1) : new.externalErrorList[j] = list[j + 1]
       /\ new.value = old.value
       /\ new.errorList = old.errorList
       /\ last.ret.keyPath = last.this.keyPath
       /\ \A i \in DOMAIN CallsMade :
            CallsMade[i].keyPath = last.this.keyPath /\ CallsMade[i].root = Len(roots)
       /\ ~last.suppressUpdate /\ ~last.contextual => Len(CallsMade) = 1

\* removeError on a Value at [a], with a record whose field is data.ab and
\* that is the first and the third entry of the list, took out the first
C19_Witness ==
  /\ last.op = "removeError" /\ last.this.keyPath = <<SegA>>
  /\ last.arg.field = FieldString(<<SegAB>>)
  /\ roots[last.this.root].externalErrorList = <<External1, External2, External1>>
  /\ roots[last.ret.root].externalErrorList = <<External2, External1>>
  /\ Len(CallsMade) = 1 /\ CallsMade[1].keyPath = <<SegA>>

\* C20: the Root a mutating call returns, and notifies, is made from the Root
\* of the receiver alone, also when Roots were made since: after update(y)
\* at q the document has y at q and, off q, what the receiver's Root has,
\* and the other fields are the receiver Root's; the error calls keep the
\* document, schema, params and validation errors of the receiver's Root
C20_ResultFromReceiverRoot ==
  last.op \in NotifyingOps /\ MadeRoot =>
    LET old == roots[last.this.root]
        new == roots[last.ret.root]
        q == last.this.keyPath
    IN /\ last.ret.root = Len(roots)
       /\ Len(CallsMade) = 1 => CallsMade[1].root = last.ret.root
       /\ new.schema = old.schema
       /\ new.onChange = old.onChange /\ new.validate = old.validate
       /\ last.op # "updateParams" => new.params = old.params
       /\ last.op = "update" =>
            /\ valueOf(roots, last.ret) = last.arg
            /\ \A p \in QueryPaths :
                 ~IsPrefix(p, q) /\ ~IsPrefix(q, p) =>
                   selectValue(new.value, p) = selectValue(old.value, p)
            /\ new.externalErrorList = old.externalErrorList
       /\ last.op # "update" => new.value = old.value /\ new.errorList = old.errorList

\* R.select(a).update(x) was called and its result dropped; then
\* R.select(b).update(y): the Root returned and notified has y at b and at a
\* what R has, not x
C20_Witness ==
  /\ last.op = "update" /\ Len(roots) = 3
  /\ last.this.root = 1 /\ last.this.keyPath = <<SegB>> /\ last.ret.root = 3
  /\ selectValue(roots[2].value, <<SegA>>) # selectValue(roots[1].value, <<SegA>>)
  /\ selectValue(roots[2].value, <<SegA>>) # Undefined
  /\ selectValue(roots[2].value, <<SegB>>) = Undefined
  /\ selectValue(roots[3].value, <<SegA>>) = selectValue(roots[1].value, <<SegA>>)
  /\ selectValue(roots[3].value, <<SegB>>) = last.arg
  /\ notified[Len(notified)].root = 3

====
